---- MODULE Spec2Model ----
(***************************************************************************)
(* Model of the detection-and-repair engine of text_data_repair            *)
(* (src/model.py, class TextDataDoctor and dataclass BadEscape).           *)
(*                                                                         *)
(* Strings are sequences of one-character strings.  Positions handed to    *)
(* the string helpers are Python positions (0-based, half-open slices), so *)
(* that the index arithmetic of the source can be copied as written.       *)
(***************************************************************************)
EXTENDS Integers, Sequences, FiniteSets, TLC

VARIABLES
    record_start_regex,   \* source text of the compiled record-start pattern
    qualifier,            \* "" or one character
    header_line,          \* first physical line, line ending stripped
    lines,                \* the physical lines after the header
    pc,                   \* position of analyze_file / get_records
    i,                    \* enumerate index of the next physical line
    record,               \* buffer of get_records
    overflow_lines,       \* self.overflow_lines
    yielded,              \* the records get_records has yielded so far
    bad_escapes,          \* list of BadEscape (record, values)
    bad_delimiters,       \* list of records
    too_few_delimiters,   \* flag of analyze_file
    temp_file,            \* the strings written to the output, in order
    code,                 \* AnalyzeResult.code (0 while none is set)
    gq_record,            \* argument of get_qualifier_values
    gq_pc,                \* position of get_qualifier_values
    gq_start,             \* its local start
    gq_end,               \* its local end
    gq_loop_counter,      \* its local loop_counter
    gq_values,            \* the values it has yielded so far
    pk_exists,            \* whether the path handed to peek_file can be opened
    pk_header,            \* the bytes of its first line, line ending removed
    pk_body,              \* the bytes of its other lines
    pk_pc,                \* position of peek_file
    pk_encoding,          \* its local encoding
    pk_decoded,           \* its local header
    pk_bad_lines,         \* its local bad_lines
    pk_result,            \* the PeekResult it returned
    tb_rows,              \* BadDelimitersTableModel.bad_delimiters
    table_changes,        \* BadDelimitersTableModel.table_changes
    current_change,       \* BadDelimitersTableModel.current_change
    tb_error,             \* what the last table operation raised
    tb_op                 \* the last table operation; for a merge, whether
                          \* its row shows a good record and how many log
                          \* entries lay beyond the cursor when it was called

vars == <<record_start_regex, qualifier, header_line, lines, pc, i, record,
          overflow_lines, yielded, bad_escapes, bad_delimiters,
          too_few_delimiters, temp_file, code,
          gq_record, gq_pc, gq_start, gq_end, gq_loop_counter, gq_values,
          pk_exists, pk_header, pk_body, pk_pc, pk_encoding, pk_decoded,
          pk_bad_lines, pk_result,
          tb_rows, table_changes, current_change, tb_error, tb_op>>

config_vars == <<record_start_regex, qualifier, header_line, lines>>
analyze_vars == <<pc, i, record, overflow_lines, yielded, bad_escapes,
                  bad_delimiters, too_few_delimiters, temp_file, code>>
gq_vars == <<gq_record, gq_pc, gq_start, gq_end, gq_loop_counter, gq_values>>
peek_vars == <<pk_exists, pk_header, pk_body, pk_pc, pk_encoding, pk_decoded,
               pk_bad_lines, pk_result>>
table_vars == <<tb_rows, table_changes, current_change, tb_error, tb_op>>

----------------------------------------------------------------------------
(* Bounds of the explored inputs *)

MaxFileLen == 5
MaxValueLen == 2
MaxRecordLen == 4
MaxHeaderLen == 3
MaxBodyLines == 1
MaxBadRows == 1
MaxCells == 3
MaxChanges == 2

----------------------------------------------------------------------------
(* Program constants *)

\* if loop_counter > 100
MaxLoops == 100

----------------------------------------------------------------------------
(* Characters *)

QUOTE == "\""
delimiter == <<",">>
CR == "\r"
LF == "\n"

Alphabet == {"1", ",", QUOTE}
ValueAlphabet == {"1", "a"}

Digits == {"0", "1", "2", "3", "4", "5", "6", "7", "8", "9"}
NonWordChars == {",", QUOTE, " ", ".", ")", CR, LF}

IsWordChar(c) == c \notin NonWordChars

----------------------------------------------------------------------------
(* Python str operations used by the source *)

MinOf(S) == CHOOSE x \in S : \A y \in S : x <= y
MaxOf(S) == CHOOSE x \in S : \A y \in S : x >= y

\* a slice bound as Python normalises it
SliceBound(k, n) == IF k < 0 THEN (IF k + n < 0 THEN 0 ELSE k + n)
                    ELSE (IF k > n THEN n ELSE k)

\* s[a:b]
PySlice(s, a, b) ==
    LET lo == SliceBound(a, Len(s))
        hi == SliceBound(b, Len(s))
    IN IF lo >= hi THEN <<>> ELSE SubSeq(s, lo + 1, hi)

\* positions k >= from at which pat occurs in s
Occurrences(s, pat, from) ==
    {k \in from..(Len(s) - Len(pat)) : SubSeq(s, k + 1, k + Len(pat)) = pat}

\* s.find(pat, from)
Find(s, pat, from) ==
    IF Occurrences(s, pat, from) = {} THEN -1
    ELSE MinOf(Occurrences(s, pat, from))

\* s.rfind(pat)
RFind(s, pat) ==
    IF Occurrences(s, pat, 0) = {} THEN -1
    ELSE MaxOf(Occurrences(s, pat, 0))

\* pat in s
Contains(s, pat) == Occurrences(s, pat, 0) # {}

\* s.count(c) for a one-character string c
Count(s, c) == Cardinality({k \in 1..Len(s) : <<s[k]>> = c})

RECURSIVE Split(_, _)
\* s.split(sep), sep not empty
Split(s, sep) ==
    LET k == Find(s, sep, 0)
    IN IF k = -1 THEN <<s>>
       ELSE <<PySlice(s, 0, k)>> \o Split(PySlice(s, k + Len(sep), Len(s)), sep)

RECURSIVE Replace(_, _, _)
\* s.replace(old, new), old not empty
Replace(s, old, new) ==
    LET k == Find(s, old, 0)
    IN IF k = -1 THEN s
       ELSE PySlice(s, 0, k) \o new
            \o Replace(PySlice(s, k + Len(old), Len(s)), old, new)

RECURSIVE Concat(_)
\* "".join(parts)
Concat(parts) ==
    IF parts = <<>> THEN <<>> ELSE Head(parts) \o Concat(Tail(parts))

----------------------------------------------------------------------------
(* Regular expressions of the source, by what they match *)

\* self.record_start_regex.match(line): "" matches every line, "\d" a line
\* that starts with a digit
RecordStartMatch(line) ==
    CASE record_start_regex = "" -> TRUE
      [] record_start_regex = "\\d" -> line # <<>> /\ line[1] \in Digits

\* re.match(r"^\w+[).] ", line)
ListMarkerMatch(line) ==
    \E k \in 1..Len(line) :
        /\ \A j \in 1..k : IsWordChar(line[j])
        /\ k + 2 <= Len(line)
        /\ line[k + 1] \in {")", "."}
        /\ line[k + 2] = " "

\* re.sub(f"{self.delimiter}$", "", record)
StripTrailingDelimiter(rec) ==
    IF rec # <<>> /\ <<rec[Len(rec)]>> = delimiter
    THEN SubSeq(rec, 1, Len(rec) - 1)
    ELSE rec

\* the matches of (?<=[^q])q+(?=[^q]) in value: the maximal runs of the
\* qualifier that have a character other than the qualifier on both sides,
\* as pairs <<first, last>> of 1-based positions
QualifierRuns(value) ==
    {run \in (2..(Len(value) - 1)) \X (2..(Len(value) - 1)) :
        /\ run[1] <= run[2]
        /\ \A k \in run[1]..run[2] : <<value[k]>> = qualifier
        /\ <<value[run[1] - 1]>> # qualifier
        /\ <<value[run[2] + 1]>> # qualifier}

\* any() of "the run has an odd number of qualifiers"
non_escaped_qualifiers(value) ==
    \E run \in QualifierRuns(value) : (run[2] - run[1] + 1) % 2 # 0

----------------------------------------------------------------------------
(* TextDataDoctor.__init__ and its properties *)

\* self.all_qualified = True  # Should be False
all_qualified == TRUE

header_delimiter_count == Count(header_line, delimiter)

all_qualified_pattern == qualifier \o delimiter \o qualifier
start_pattern == delimiter \o qualifier
end_pattern == qualifier \o delimiter

----------------------------------------------------------------------------
(* BadEscape *)

escape_qualifiers(accumulator, value) ==
    Replace(accumulator,
            qualifier \o value \o qualifier,
            qualifier \o Replace(value, qualifier, qualifier \o qualifier)
                      \o qualifier)

RECURSIVE Reduce(_, _)
\* reduce(self.escape_qualifiers, values, acc)
Reduce(values, acc) ==
    IF values = <<>> THEN acc
    ELSE Reduce(Tail(values), escape_qualifiers(acc, Head(values)))

fix_record(bad_escape) == Reduce(bad_escape.values, bad_escape.record)

----------------------------------------------------------------------------
(* get_qualifier_values and its helpers *)

is_not_end_qualified_values(rec, start, end) ==
    /\ Contains(PySlice(rec, start, end), start_pattern)
    /\ Contains(PySlice(rec, start, end), end_pattern)
    /\ start < end

RECURSIVE find_value_end(_, _)
find_value_end(rec, end_position) ==
    LET next_start == Find(rec, start_pattern, end_position + 1)
        next_end == Find(rec, end_pattern, end_position + 1)
    IN IF /\ next_end # -1
          /\ \/ (next_start # -1 /\ next_end < next_start)
             \/ next_start = -1
       THEN find_value_end(rec, next_end)
       ELSE end_position

\* the two guards at the top of get_qualifier_values
GQContract ==
    /\ gq_pc = "begin"
    /\ (qualifier = <<>> \/ gq_record = <<>>)
    /\ gq_pc' = "AttributeError"
    /\ UNCHANGED <<gq_record, gq_start, gq_end, gq_loop_counter, gq_values>>
    /\ UNCHANGED <<config_vars, analyze_vars, peek_vars, table_vars>>

\* if record[0] == self.qualifier and self.end_pattern in record
GQLeading ==
    /\ gq_pc = "begin"
    /\ qualifier # <<>>
    /\ gq_record # <<>>
    /\ IF <<gq_record[1]>> = qualifier /\ Contains(gq_record, end_pattern)
       THEN LET temp_start == Find(PySlice(gq_record, 1, Len(gq_record)),
                                   end_pattern, 0)
            IN IF temp_start = -1
               THEN /\ gq_pc' = "ValueError"
                    /\ UNCHANGED <<gq_start, gq_values>>
               ELSE /\ gq_values' =
                           Append(gq_values, PySlice(gq_record, 1, temp_start))
                    /\ gq_start' = temp_start
                    /\ gq_pc' = "trailing"
       ELSE /\ gq_pc' = "trailing"
            /\ UNCHANGED <<gq_start, gq_values>>
    /\ UNCHANGED <<gq_record, gq_end, gq_loop_counter>>
    /\ UNCHANGED <<config_vars, analyze_vars, peek_vars, table_vars>>

\* if record[-1] == self.qualifier and self.start_pattern in record
GQTrailing ==
    /\ gq_pc = "trailing"
    /\ IF /\ <<gq_record[Len(gq_record)]>> = qualifier
          /\ Contains(gq_record, start_pattern)
       THEN LET last_pattern == RFind(PySlice(gq_record, 0, -1), start_pattern)
            IN IF last_pattern = -1
               THEN /\ gq_pc' = "ValueError"
                    /\ UNCHANGED <<gq_end, gq_values>>
               ELSE /\ gq_values' =
                           Append(gq_values,
                                  PySlice(gq_record, last_pattern + 1, gq_end - 1))
                    /\ gq_end' = last_pattern + 1
                    /\ gq_pc' = "loop"
       ELSE /\ gq_pc' = "loop"
            /\ UNCHANGED <<gq_end, gq_values>>
    /\ UNCHANGED <<gq_record, gq_start, gq_loop_counter>>
    /\ UNCHANGED <<config_vars, analyze_vars, peek_vars, table_vars>>

\* one iteration of the while loop
GQLoop ==
    /\ gq_pc = "loop"
    /\ is_not_end_qualified_values(gq_record, gq_start, gq_end)
    /\ LET value_start == Find(gq_record, start_pattern, gq_start)
           end_position == Find(gq_record, end_pattern, value_start)
           value_end == find_value_end(gq_record, end_position)
       IN IF end_position = -1
          THEN /\ gq_pc' = "ValueError"
               /\ UNCHANGED <<gq_start, gq_loop_counter, gq_values>>
          ELSE /\ gq_values' =
                      Append(gq_values,
                             PySlice(gq_record, value_start + 2, value_end))
               /\ gq_start' = value_end + 1
               /\ gq_loop_counter' = gq_loop_counter + 1
               /\ gq_pc' = IF gq_loop_counter' > MaxLoops THEN "Exception" ELSE "loop"
    /\ UNCHANGED <<gq_record, gq_end>>
    /\ UNCHANGED <<config_vars, analyze_vars, peek_vars, table_vars>>

\* the while condition is false: the generator is exhausted
GQStop ==
    /\ gq_pc = "loop"
    /\ ~is_not_end_qualified_values(gq_record, gq_start, gq_end)
    /\ gq_pc' = "done"
    /\ UNCHANGED <<gq_record, gq_start, gq_end, gq_loop_counter, gq_values>>
    /\ UNCHANGED <<config_vars, analyze_vars, peek_vars, table_vars>>

----------------------------------------------------------------------------
(* The body of the for loop of analyze_file, for one yielded record *)

\* self.qualifier in record and self.qualifier
HasQualifier(rec) == qualifier # <<>> /\ Contains(rec, qualifier)

\* the record as the loop body holds it after line 307
AnalyzedRecord(raw) ==
    IF HasQualifier(raw) /\ all_qualified
    THEN StripTrailingDelimiter(raw)
    ELSE raw

\* checks, with all_qualified set
Checks(rec) == Split(PySlice(rec, 1, -1), all_qualified_pattern)

\* result = [check for check in checks if self.non_escaped_qualifiers(check)]
BadValues(rec) == SelectSeq(Checks(rec), non_escaped_qualifiers)

IsBadEscape(rec) == HasQualifier(rec) /\ BadValues(rec) # <<>>

\* delimiter_count as it stands when it is last compared with the header's
delimiter_count(rec) ==
    IF Count(rec, delimiter) # header_delimiter_count /\ HasQualifier(rec)
    THEN Len(Split(rec, all_qualified_pattern)) - 1
    ELSE Count(rec, delimiter)

IsBadDelimiter(rec) ==
    /\ Count(rec, delimiter) # header_delimiter_count
    /\ delimiter_count(rec) # header_delimiter_count

\* the locals of analyze_file after the loop body has run on raw
LoopBody(a, raw) ==
    LET rec == AnalyzedRecord(raw)
        is_bad_record == IsBadEscape(rec) \/ IsBadDelimiter(rec)
    IN [bad_escapes |->
            IF IsBadEscape(rec)
            THEN Append(a.bad_escapes,
                        [record |-> rec, values |-> BadValues(rec)])
            ELSE a.bad_escapes,
        bad_delimiters |->
            IF IsBadDelimiter(rec) THEN Append(a.bad_delimiters, rec)
            ELSE a.bad_delimiters,
        too_few_delimiters |->
            IF IsBadDelimiter(rec)
            THEN delimiter_count(rec) < header_delimiter_count
            ELSE a.too_few_delimiters,
        temp_file |->
            IF is_bad_record THEN a.temp_file
            ELSE Append(a.temp_file, rec \o <<LF>>)]

Locals ==
    [bad_escapes |-> bad_escapes, bad_delimiters |-> bad_delimiters,
     too_few_delimiters |-> too_few_delimiters, temp_file |-> temp_file]

\* the chain with the qualifier test of the -5 branch negated
ClassifyQualifierNegated(be, bd, too_few, overflow) ==
    IF be # <<>> /\ bd # <<>> THEN -1
    ELSE IF be # <<>> THEN -2
    ELSE IF bd # <<>> /\ qualifier = <<>> /\ ~too_few THEN -3
    ELSE IF bd # <<>> /\ too_few THEN -4
    ELSE IF bd # <<>> /\ qualifier = <<>> THEN -5
    ELSE IF bd = <<>> /\ be = <<>>
         THEN (IF overflow # <<>> /\ qualifier = <<>> THEN -6 ELSE 1)
    ELSE -7

\* the if/elif chain after the loop
Classify(be, bd, too_few, overflow) ==
    IF be # <<>> /\ bd # <<>> THEN -1
    ELSE IF be # <<>> THEN -2
    ELSE IF bd # <<>> /\ qualifier = <<>> /\ ~too_few THEN -3
    ELSE IF bd # <<>> /\ too_few THEN -4
    ELSE IF bd # <<>> /\ qualifier # <<>> THEN -5
    ELSE IF bd = <<>> /\ be = <<>>
         THEN (IF overflow # <<>> /\ qualifier = <<>> THEN -6 ELSE 1)
    ELSE -7

\* the repaired records written right after the header
WritelinesFirst(file, be) ==
    <<Head(file)>> \o [k \in 1..Len(be) |-> fix_record(be[k])] \o Tail(file)

\* temp_file.writelines([bad_escape.fix_record for bad_escape in bad_escapes])
Writelines(file, be) ==
    file \o [k \in 1..Len(be) |-> fix_record(be[k])]

----------------------------------------------------------------------------
(* analyze_file driving get_records, one physical line per step *)

line == lines[i + 1]

\* get_records yields raw: the loop body of analyze_file runs on it
\* the record handed over by get_records and left out of the loop body
YieldDropped(raw) ==
    /\ yielded' = Append(yielded, raw)
    /\ UNCHANGED <<bad_escapes, bad_delimiters, too_few_delimiters, temp_file>>

Yield(raw) ==
    LET a == LoopBody(Locals, raw)
    IN /\ yielded' = Append(yielded, raw)
       /\ bad_escapes' = a.bad_escapes
       /\ bad_delimiters' = a.bad_delimiters
       /\ too_few_delimiters' = a.too_few_delimiters
       /\ temp_file' = a.temp_file

NoYield ==
    UNCHANGED <<yielded, bad_escapes, bad_delimiters, too_few_delimiters,
                temp_file>>

\* the overflow step recording the enumerate index plus one
OverflowMisnumbered ==
    /\ record' = record \o <<CR>> \o line
    /\ overflow_lines' = Append(overflow_lines, i + 1)
    /\ i' = i + 1
    /\ NoYield
    /\ UNCHANGED <<pc, code>>

\* record += f"\r{line}"; self.overflow_lines.append(i+2); continue
Overflow ==
    /\ record' = record \o <<CR>> \o line
    /\ overflow_lines' = Append(overflow_lines, i + 2)
    /\ i' = i + 1
    /\ NoYield
    /\ UNCHANGED <<pc, code>>

\* lines 290-302: the locals are set and the header is written
AnalyzeStart ==
    /\ pc = "init"
    /\ overflow_lines' = <<>>
    /\ bad_escapes' = <<>>
    /\ bad_delimiters' = <<>>
    /\ too_few_delimiters' = FALSE
    /\ temp_file' = <<header_line \o <<LF>>>>
    /\ record' = <<>>
    /\ i' = 0
    /\ pc' = "lines"
    /\ UNCHANGED <<yielded, code>>
    /\ UNCHANGED <<config_vars, gq_vars, peek_vars, table_vars>>

\* the line matches the record-start pattern
RecordStartLine ==
    /\ pc = "lines"
    /\ i < Len(lines)
    /\ RecordStartMatch(line)
    /\ IF record # <<>> THEN Yield(record) ELSE NoYield
    /\ record' = line
    /\ i' = i + 1
    /\ UNCHANGED <<pc, overflow_lines, code>>
    /\ UNCHANGED <<config_vars, gq_vars, peek_vars, table_vars>>

\* the line is blank
BlankLine ==
    /\ pc = "lines"
    /\ i < Len(lines)
    /\ ~RecordStartMatch(line)
    /\ line = <<>>
    /\ Overflow
    /\ UNCHANGED <<config_vars, gq_vars, peek_vars, table_vars>>

\* check_exp: an opened qualified value has not closed yet
check_exp ==
    LET last_start == RFind(record, start_pattern)
        last_end == RFind(record, end_pattern)
    IN /\ <<record[Len(record)]>> # qualifier
       /\ last_start # -1
       /\ last_start > last_end

\* a qualifier is set and the buffer is empty: record[-1] raises IndexError
EmptyBufferLine ==
    /\ pc = "lines"
    /\ i < Len(lines)
    /\ ~RecordStartMatch(line)
    /\ line # <<>>
    /\ qualifier # <<>>
    /\ record = <<>>
    /\ pc' = "IndexError"
    /\ UNCHANGED <<i, record, overflow_lines, code>>
    /\ NoYield
    /\ UNCHANGED <<config_vars, gq_vars, peek_vars, table_vars>>

OpenValueLine ==
    /\ pc = "lines"
    /\ i < Len(lines)
    /\ ~RecordStartMatch(line)
    /\ line # <<>>
    /\ qualifier # <<>>
    /\ record # <<>>
    /\ check_exp
    /\ Overflow
    /\ UNCHANGED <<config_vars, gq_vars, peek_vars, table_vars>>

\* the line fell through the qualifier check
FellThrough ==
    /\ pc = "lines"
    /\ i < Len(lines)
    /\ ~RecordStartMatch(line)
    /\ line # <<>>
    /\ qualifier # <<>> => (record # <<>> /\ ~check_exp)

ListMarkerLine ==
    /\ FellThrough
    /\ ListMarkerMatch(line)
    /\ Overflow
    /\ UNCHANGED <<config_vars, gq_vars, peek_vars, table_vars>>

DelimiterCountLine ==
    /\ FellThrough
    /\ ~ListMarkerMatch(line)
    /\ Count(line, delimiter) # header_delimiter_count
    /\ Overflow
    /\ UNCHANGED <<config_vars, gq_vars, peek_vars, table_vars>>

\* else: yield record; record = line
NewRecordLine ==
    /\ FellThrough
    /\ ~ListMarkerMatch(line)
    /\ Count(line, delimiter) = header_delimiter_count
    /\ Yield(record)
    /\ record' = line
    /\ i' = i + 1
    /\ UNCHANGED <<pc, overflow_lines, code>>
    /\ UNCHANGED <<config_vars, gq_vars, peek_vars, table_vars>>

\* the file is exhausted: the last yield, then lines 340-401
Finish ==
    /\ pc = "lines"
    /\ i = Len(lines)
    /\ LET a == LoopBody(Locals, record)
       IN /\ yielded' = Append(yielded, record)
          /\ bad_escapes' = a.bad_escapes
          /\ bad_delimiters' = a.bad_delimiters
          /\ too_few_delimiters' = a.too_few_delimiters
          /\ temp_file' = Writelines(a.temp_file, a.bad_escapes)
          /\ code' = Classify(a.bad_escapes, a.bad_delimiters,
                              a.too_few_delimiters, overflow_lines)
    /\ pc' = "done"
    /\ UNCHANGED <<i, record, overflow_lines>>
    /\ UNCHANGED <<config_vars, gq_vars, peek_vars, table_vars>>

----------------------------------------------------------------------------
(* Inputs *)

\* the strings over alphabet of at most n characters
Strs(alphabet, n) == UNION {[1..k -> alphabet] : k \in 0..n}

RECURSIVE ReadLines(_)
\* the physical lines of a text as "for line in f" delivers them, each with
\* its line ending removed by line.rstrip("\r\n")
ReadLines(text) ==
    LET k == Find(text, <<LF>>, 0)
    IN IF text = <<>> THEN <<>>
       ELSE IF k = -1 THEN <<text>>
       ELSE <<PySlice(text, 0, k)>>
            \o ReadLines(PySlice(text, k + 1, Len(text)))

\* the file bodies of at most MaxFileLen characters, line endings included
FilePool == {ReadLines(text) : text \in Strs(Alphabet \cup {LF}, MaxFileLen)}
HeaderPool == {<<"1">>, <<"1", ",", "1">>}
RegexPool == {"", "\\d"}
QualifierPool == {<<>>, <<QUOTE>>}

\* spec.md section 8, scenario 1
Scenario1 ==
    [regex |-> "\\d", qualifier |-> <<>>,
     header |-> <<"i", "d", ",", "n", "a", "m", "e", ",", "n", "o", "t", "e", "s">>,
     lines |-> << <<"1", ",", "A", "l", "i", "c", "e", ",", "h", "e", "l", "l", "o">>,
                  <<"2", ",", "B", "o", "b", ",", "h", "i", " ", "t", "h", "e", "r", "e", ",", " ", "f", "r", "i", "e", "n", "d">> >>]

\* spec.md section 8, scenario 2
Scenario2Record ==
    <<"1", ",", QUOTE, "A", "l", "i", "c", "e", ",", " ", QUOTE, "A", "n", "n", QUOTE, " ", " ", "S", "m", "i", "t", "h", QUOTE>>

Scenario2 ==
    [regex |-> "\\d", qualifier |-> <<QUOTE>>,
     header |-> <<"i", "d", ",", "n", "a", "m", "e">>,
     lines |-> <<Scenario2Record>>]

\* a wrapped list item in a notes field
ListItemFile ==
    [regex |-> "\\d", qualifier |-> <<>>,
     header |-> <<"i", "d", ",", "n", "o", "t", "e", "s">>,
     lines |-> << <<"1", ",", "t", "o", "d", "o">>, <<"a", ")", " ", "x">> >>]

\* a qualified value wrapped over two physical lines
WrappedValueFile ==
    [regex |-> "\\d", qualifier |-> <<QUOTE>>,
     header |-> <<"i", "d", ",", "n", "a", "m", "e">>,
     lines |-> << <<"1", ",", QUOTE, "a">>, <<"b", QUOTE>> >>]

\* two records with an unescaped qualifier around a clean record
MixedFile ==
    [regex |-> "", qualifier |-> <<QUOTE>>,
     header |-> <<"a", ",", "b">>,
     lines |-> << <<QUOTE, "a", QUOTE, "b", QUOTE, ",", QUOTE, "c", QUOTE>>,
                  <<QUOTE, "x", QUOTE, ",", QUOTE, "y", QUOTE>>,
                  <<QUOTE, "e", QUOTE, "f", QUOTE, ",", QUOTE, "g", QUOTE>> >>]

\* a clean record, a record with an unescaped qualifier, a record short of a
\* delimiter, and a record with both faults
AllDestinationsFile ==
    [regex |-> "", qualifier |-> <<QUOTE>>,
     header |-> <<"a", ",", "b">>,
     lines |-> << <<QUOTE, "x", QUOTE, ",", QUOTE, "y", QUOTE>>,
                  <<QUOTE, "a", QUOTE, "b", QUOTE, ",", QUOTE, "c", QUOTE>>,
                  <<QUOTE, "x", QUOTE>>,
                  <<QUOTE, "a", QUOTE, "b", QUOTE>> >>]

Scenarios ==
    {Scenario1, Scenario2, ListItemFile, WrappedValueFile, MixedFile,
     AllDestinationsFile}

\* the state after TextDataDoctor.__init__
Constructed ==
    /\ pc = "init"
    /\ i = 0
    /\ record = <<>>
    /\ overflow_lines = <<>>
    /\ yielded = <<>>
    /\ bad_escapes = <<>>
    /\ bad_delimiters = <<>>
    /\ too_few_delimiters = FALSE
    /\ temp_file = <<>>
    /\ code = 0

GQIdle ==
    /\ gq_record = <<>>
    /\ gq_pc = "idle"
    /\ gq_start = 0
    /\ gq_end = 0
    /\ gq_loop_counter = 0
    /\ gq_values = <<>>

PeekIdle ==
    /\ pk_exists = FALSE
    /\ pk_header = <<>>
    /\ pk_body = <<>>
    /\ pk_pc = "idle"
    /\ pk_encoding = "utf8"
    /\ pk_decoded = <<>>
    /\ pk_bad_lines = <<>>
    /\ pk_result = [code |-> 0]

TableIdle ==
    /\ tb_rows = <<>>
    /\ table_changes = <<>>
    /\ current_change = -1
    /\ tb_error = "none"
    /\ tb_op = [op |-> "none"]

Init ==
    /\ \/ /\ record_start_regex \in RegexPool
          /\ qualifier \in QualifierPool
          /\ header_line \in HeaderPool
          /\ lines \in FilePool
       \/ \E s \in Scenarios :
             /\ record_start_regex = s.regex
             /\ qualifier = s.qualifier
             /\ header_line = s.header
             /\ lines = s.lines
    /\ Constructed
    /\ GQIdle
    /\ PeekIdle
    /\ TableIdle

Next ==
    \/ AnalyzeStart
    \/ RecordStartLine
    \/ BlankLine
    \/ EmptyBufferLine
    \/ OpenValueLine
    \/ ListMarkerLine
    \/ DelimiterCountLine
    \/ NewRecordLine
    \/ Finish

Spec == Init /\ [][Next]_vars

(* get_qualifier_values on its own *)

\* qualifier A qualifier delimiter qualifier B qualifier
TwoQualified(A, B) ==
    <<QUOTE>> \o A \o <<QUOTE>> \o delimiter \o <<QUOTE>> \o B \o <<QUOTE>>

ValuePool == Strs(ValueAlphabet, MaxValueLen)

\* a record whose only end_pattern lies before its only start_pattern
EndBeforeStart == <<"1", QUOTE, ",", "1", ",", QUOTE, "1">>

GQRecordPool ==
    Strs(Alphabet, MaxRecordLen)
        \cup {TwoQualified(A, B) : A \in ValuePool, B \in ValuePool}
        \cup {EndBeforeStart}

InitGQ ==
    /\ record_start_regex = ""
    /\ qualifier \in QualifierPool
    /\ header_line = <<>>
    /\ lines = <<>>
    /\ Constructed
    /\ gq_record \in GQRecordPool
    /\ gq_pc = "begin"
    /\ gq_start = 0
    /\ gq_end = Len(gq_record)
    /\ gq_loop_counter = 0
    /\ gq_values = <<>>
    /\ PeekIdle
    /\ TableIdle

NextGQ ==
    \/ GQContract
    \/ GQLeading
    \/ GQTrailing
    \/ GQLoop
    \/ GQStop

SpecGQ == InitGQ /\ [][NextGQ]_vars

----------------------------------------------------------------------------
(* peek_file *)

\* bytes that are no ASCII character: 0x00, 0xFF (a letter in cp1252, never
\* valid in utf8) and 0x81 (undefined in cp1252, no valid utf8)
BYTE_00 == "0x00"
BYTE_FF == "0xFF"
BYTE_81 == "0x81"
CHAR_FF == "U+00FF"

\* bytes.decode("utf8") raises UnicodeDecodeError
Utf8Fails(bytes) == \E k \in 1..Len(bytes) : bytes[k] \in {BYTE_FF, BYTE_81}

\* bytes.decode("cp1252") raises UnicodeDecodeError
Cp1252Fails(bytes) == \E k \in 1..Len(bytes) : bytes[k] = BYTE_81

\* bytes.decode(encoding) when it does not raise
Decode(bytes) ==
    [k \in 1..Len(bytes) |-> IF bytes[k] = BYTE_FF THEN CHAR_FF ELSE bytes[k]]

RECURSIVE ReSplitWords(_)
\* re.split(r"\w+", header)
ReSplitWords(s) ==
    LET words == {k \in 1..Len(s) : IsWordChar(s[k])}
        first == MinOf(words)
        after == MinOf({k \in first..(Len(s) + 1) :
                            k = Len(s) + 1 \/ ~IsWordChar(s[k])})
    IN IF words = {} THEN <<s>>
       ELSE <<SubSeq(s, 1, first - 1)>>
            \o ReSplitWords(SubSeq(s, after, Len(s)))

\* the list comprehension at lines 148-152
Spacers(header) ==
    LET stripped == [k \in 1..Len(ReSplitWords(header)) |->
                        Replace(ReSplitWords(header)[k], <<" ">>, <<>>)]
    IN SelectSeq(stripped, LAMBDA spacer : spacer # <<>>)

\* the characters of check_space that occur in it once, by position
SingleOccurrences(check_space) ==
    {k \in 1..Len(check_space) :
        Find(check_space, <<check_space[k]>>, 0)
            = RFind(check_space, <<check_space[k]>>)}

PeekFailure(result_code) ==
    [code |-> result_code, delimiter |-> <<>>, qualifier |-> <<>>,
     encoding |-> ""]

\* lines 104-123: the file is opened and read as utf8
PeekRead ==
    /\ pk_pc = "start"
    /\ IF ~pk_exists
       THEN /\ pk_result' = PeekFailure(-1)
            /\ pk_pc' = "returned"
            /\ UNCHANGED pk_decoded
       ELSE IF \E k \in 1..Len(pk_header) : pk_header[k] = BYTE_00
       THEN /\ pk_result' = PeekFailure(-6)
            /\ pk_pc' = "returned"
            /\ UNCHANGED pk_decoded
       ELSE IF Utf8Fails(pk_header)
               \/ \E k \in 1..Len(pk_body) : Utf8Fails(pk_body[k])
       THEN /\ pk_pc' = "fallback"
            /\ UNCHANGED <<pk_result, pk_decoded>>
       ELSE /\ pk_decoded' = Decode(pk_header)
            /\ pk_pc' = "sniff"
            /\ UNCHANGED pk_result
    /\ UNCHANGED <<pk_exists, pk_header, pk_body, pk_encoding, pk_bad_lines>>
    /\ UNCHANGED <<config_vars, analyze_vars, gq_vars, table_vars>>

\* lines 124-146: the file is read again as cp1252; the PeekResult built
\* when bad_lines is not empty is not returned
PeekFallback ==
    /\ pk_pc = "fallback"
    /\ pk_encoding' = "cp1252"
    /\ IF Cp1252Fails(pk_header)
       THEN /\ pk_pc' = "UnicodeDecodeError"
            /\ UNCHANGED <<pk_decoded, pk_bad_lines>>
       ELSE /\ pk_decoded' = Decode(pk_header)
            /\ pk_bad_lines' = SelectSeq(pk_body, Cp1252Fails)
            /\ pk_pc' = "sniff"
    /\ UNCHANGED <<pk_exists, pk_header, pk_body, pk_result>>
    /\ UNCHANGED <<config_vars, analyze_vars, gq_vars, table_vars>>

\* lines 147-166: the delimiter and the qualifier are looked for in the header
PeekSniff ==
    /\ pk_pc = "sniff"
    /\ LET spacers == Spacers(pk_decoded)
           check_space == IF Len(spacers) > 1 THEN spacers[2] ELSE spacers[1]
           singles == SingleOccurrences(check_space)
           found == <<check_space[MinOf(singles)]>>
           rest == {check_space[k] : k \in
                       {j \in 1..Len(check_space) : <<check_space[j]>> # found}}
       IN IF spacers = <<>>
          THEN /\ pk_pc' = "IndexError"
               /\ UNCHANGED pk_result
          ELSE /\ pk_pc' = "returned"
               /\ pk_result' =
                    IF \A k \in 1..Len(check_space) : check_space[k] = " "
                    THEN PeekFailure(-3)
                    ELSE IF singles = {} THEN PeekFailure(-4)
                    ELSE [code |-> 1, delimiter |-> found,
                          qualifier |-> IF Cardinality(rest) = 1
                                        THEN <<CHOOSE c \in rest : TRUE>>
                                        ELSE <<>>,
                          encoding |-> pk_encoding]
    /\ UNCHANGED <<pk_exists, pk_header, pk_body, pk_encoding, pk_decoded,
                   pk_bad_lines>>
    /\ UNCHANGED <<config_vars, analyze_vars, gq_vars, table_vars>>

PeekAlphabet == {"a", ",", QUOTE, " ", BYTE_00, BYTE_FF, BYTE_81}
BodyLineAlphabet == {"a", BYTE_FF, BYTE_81}

PeekHeaderPool ==
    Strs(PeekAlphabet, MaxHeaderLen)
        \cup { <<QUOTE, "i", "d", QUOTE, ",", QUOTE, "n", "a", "m", "e", QUOTE>>,
               <<"i", "d", ",", "n", "a", "m", "e">>,
               <<"i", "d", " ", "n", "a", "m", "e">> }

PeekBodyPool == UNION {[1..n -> Strs(BodyLineAlphabet, 1)] : n \in 0..MaxBodyLines}

InitPeek ==
    /\ record_start_regex = ""
    /\ qualifier = <<>>
    /\ header_line = <<>>
    /\ lines = <<>>
    /\ Constructed
    /\ GQIdle
    /\ TableIdle
    /\ \/ /\ pk_exists = TRUE
          /\ pk_header \in PeekHeaderPool
          /\ pk_body \in PeekBodyPool
       \/ /\ pk_exists = FALSE
          /\ pk_header = <<>>
          /\ pk_body = <<>>
    /\ pk_pc = "start"
    /\ pk_encoding = "utf8"
    /\ pk_decoded = <<>>
    /\ pk_bad_lines = <<>>
    /\ pk_result = [code |-> 0]

NextPeek ==
    \/ PeekRead
    \/ PeekFallback
    \/ PeekSniff

SpecPeek == InitPeek /\ [][NextPeek]_vars

----------------------------------------------------------------------------
(* BadDelimitersTableModel; tb_rows is its attribute bad_delimiters *)

\* table rows below this index show good records
GoodRows == 10

\* list[k] does not raise IndexError
PyIndexValid(list, k) == -Len(list) <= k /\ k < Len(list)

\* the position list[k] denotes, negative k counting from the end
PyIndex(list, k) == IF k >= 0 THEN k + 1 ELSE Len(list) + k + 1

RECURSIVE Join(_)
\* self.delimiter.join(cells)
Join(cells) ==
    IF cells = <<>> THEN <<>>
    ELSE IF Len(cells) = 1 THEN cells[1]
    ELSE cells[1] \o delimiter \o Join(Tail(cells))

\* get_row(row) raises IndexError
get_row_raises(rows, row) ==
    \/ row = -1
    \/ row - GoodRows > Len(rows) - 1
    \/ ~PyIndexValid(rows, row - GoodRows)

get_row(rows, row) == rows[PyIndex(rows, row - GoodRows)]

get_new_row(rows, row, start, end) ==
    LET old_row == get_row(rows, row)
        new_value == Join(PySlice(old_row, start, end + 1))
    IN PySlice(old_row, 0, start) \o <<new_value>>
       \o PySlice(old_row, end + 1, Len(old_row))

BadDelimiterChange(row, start, end, old_row) ==
    [row |-> row, start |-> start, end |-> end, old_row |-> old_row]

\* the log as the merge would leave it without the loop at lines 310-311
KeepChanges(changes, cursor) == changes

RECURSIVE TruncatedChanges(_, _)
\* while len(self.table_changes) - 1 > self.current_change: del [-1]
TruncatedChanges(changes, cursor) ==
    IF Len(changes) - 1 > cursor
    THEN TruncatedChanges(SubSeq(changes, 1, Len(changes) - 1), cursor)
    ELSE changes

merge_cells(row, start, end) ==
    /\ tb_op' = [op |-> "merge", good_row |-> row < GoodRows,
                 beyond |-> Len(table_changes) - 1 - current_change]
    /\ IF ~PyIndexValid(tb_rows, row - GoodRows) \/ get_row_raises(tb_rows, row)
       THEN /\ tb_error' = "IndexError"
            /\ UNCHANGED <<tb_rows, table_changes, current_change>>
       ELSE IF Len(tb_rows[PyIndex(tb_rows, row - GoodRows)]) > end
       THEN /\ tb_rows' = [tb_rows EXCEPT ![PyIndex(tb_rows, row - GoodRows)] =
                               get_new_row(tb_rows, row, start, end)]
            /\ table_changes' =
                 Append(TruncatedChanges(table_changes, current_change),
                        BadDelimiterChange(row, start, end,
                                           get_row(tb_rows, row)))
            /\ current_change' = current_change + 1
            /\ tb_error' = "none"
       ELSE /\ tb_error' = "none"
            /\ UNCHANGED <<tb_rows, table_changes, current_change>>
    /\ UNCHANGED <<config_vars, analyze_vars, gq_vars, peek_vars>>

\* open_menu: at least two selected cells of one table row, then merge_cells
MergeCells ==
    /\ Len(table_changes) < MaxChanges
    /\ \E row \in 0..(GoodRows + Len(tb_rows) - 1) :
         \E start \in 0..(MaxCells - 1), end \in 0..(MaxCells - 1) :
             /\ start < end
             /\ merge_cells(row, start, end)

UndoChange ==
    /\ tb_op' = [op |-> "undo"]
    /\ IF table_changes = <<>> \/ current_change = -1
       THEN /\ tb_error' = "none"
            /\ UNCHANGED <<tb_rows, table_changes, current_change>>
       ELSE LET change == table_changes[current_change + 1]
            IN IF ~PyIndexValid(tb_rows, change.row - GoodRows)
               THEN /\ tb_error' = "IndexError"
                    /\ UNCHANGED <<tb_rows, table_changes, current_change>>
               ELSE /\ tb_rows' =
                         [tb_rows EXCEPT
                              ![PyIndex(tb_rows, change.row - GoodRows)] =
                                  change.old_row]
                    /\ current_change' = current_change - 1
                    /\ tb_error' = "none"
                    /\ UNCHANGED table_changes
    /\ UNCHANGED <<config_vars, analyze_vars, gq_vars, peek_vars>>

\* the cursor moves before the row is written, and the row is written at
\* index change.row
RedoChange ==
    /\ tb_op' = [op |-> "redo"]
    /\ IF current_change + 1 = Len(table_changes)
       THEN /\ tb_error' = "none"
            /\ UNCHANGED <<tb_rows, table_changes, current_change>>
       ELSE LET change == table_changes[current_change + 2]
            IN /\ current_change' = current_change + 1
               /\ UNCHANGED table_changes
               /\ IF \/ get_row_raises(tb_rows, change.row)
                     \/ ~PyIndexValid(tb_rows, change.row)
                  THEN /\ tb_error' = "IndexError"
                       /\ UNCHANGED tb_rows
                  ELSE /\ tb_rows' =
                            [tb_rows EXCEPT ![PyIndex(tb_rows, change.row)] =
                                 get_new_row(tb_rows, change.row,
                                             change.start, change.end)]
                       /\ tb_error' = "none"
    /\ UNCHANGED <<config_vars, analyze_vars, gq_vars, peek_vars>>

\* the cells of a bad-delimiter record before any merge, bd.split(delimiter)
CellNames == <<"a", "b", "c", "d", "e">>
InitialRow(n) == [k \in 1..n |-> <<CellNames[k]>>]

TablePool ==
    UNION {[1..n -> {InitialRow(k) : k \in 1..MaxCells}] : n \in 1..MaxBadRows}

InitTable ==
    /\ record_start_regex = ""
    /\ qualifier = <<>>
    /\ header_line = <<>>
    /\ lines = <<>>
    /\ Constructed
    /\ GQIdle
    /\ PeekIdle
    /\ tb_rows \in TablePool
    /\ table_changes = <<>>
    /\ current_change = -1
    /\ tb_error = "none"
    /\ tb_op = [op |-> "none"]

NextTable ==
    \/ MergeCells
    \/ UndoChange
    \/ RedoChange

SpecTable == InitTable /\ [][NextTable]_vars

----------------------------------------------------------------------------
(* Properties *)

OutcomeCodes == {1, -1, -2, -3, -4, -5, -6}

\* C1: for every combination of the flags (bad escapes present, bad
\* delimiters present, qualifier configured, too few, overflow lines present)
\* the classification gives one of the seven outcome codes of the table and
\* never -7; when analyze_file returns, its code is the code of the one table
\* row whose condition the flags satisfy.
C1_ClassificationTotal ==
    /\ \A be \in {<<>>, <<1>>}, bd \in {<<>>, <<1>>}, too_few \in BOOLEAN,
          overflow \in {<<>>, <<2>>} :
           Classify(be, bd, too_few, overflow) \in OutcomeCodes
    /\ pc = "done" =>
        /\ code \in OutcomeCodes
        /\ code # -7
        /\ (code = -1) <=> (bad_escapes # <<>> /\ bad_delimiters # <<>>)
        /\ (code = -2) <=> (bad_escapes # <<>> /\ bad_delimiters = <<>>)
        /\ (code \in {-3, -4, -5}) <=>
               (bad_escapes = <<>> /\ bad_delimiters # <<>>)
        /\ (code \in {1, -6}) <=> (bad_escapes = <<>> /\ bad_delimiters = <<>>)
        /\ (code = -6) => (overflow_lines # <<>> /\ qualifier = <<>>)
        /\ (code = -4) => too_few_delimiters
        /\ (code = -3) => (qualifier = <<>> /\ ~too_few_delimiters)
        /\ (code = -5) => (qualifier # <<>> /\ ~too_few_delimiters)

\* bad delimiters only, a qualifier configured, the last one not too few:
\* the last row before the fall-through to -7
C1_Witness ==
    /\ pc = "done"
    /\ bad_escapes = <<>>
    /\ bad_delimiters # <<>>
    /\ qualifier # <<>>
    /\ ~too_few_delimiters
    /\ code = -5

\* C2: analyze_file never raises: for every file and configuration the pass
\* over the physical lines completes.
C2_AlwaysReturns == pc # "IndexError"

Scenario2Fixed ==
    <<"1", ",", QUOTE, "A", "l", "i", "c", "e", ",", " ", QUOTE, QUOTE, "A", "n", "n", QUOTE, QUOTE, " ", " ", "S", "m", "i", "t", "h", QUOTE>>

\* C3: scenario 2 returns code -2 with one bad-escape record, no
\* bad-delimiter record, and a fix_record with the quotes around Ann doubled.
C3_Scenario2 ==
    (/\ pc = "done"
     /\ header_line = Scenario2.header
     /\ lines = Scenario2.lines
     /\ qualifier = Scenario2.qualifier)
    => /\ code = -2
       /\ Len(bad_escapes) = 1
       /\ bad_delimiters = <<>>
       /\ fix_record(bad_escapes[1]) = Scenario2Fixed

\* C4: the fix_record of every BadEscape, checked again the way the record
\* was checked, has no improperly escaped value, and repairing it again
\* changes nothing.
C4_RepairEffective ==
    \A k \in 1..Len(bad_escapes) :
        LET fixed == fix_record(bad_escapes[k])
        IN /\ BadValues(fixed) = <<>>
           /\ Reduce(BadValues(fixed), fixed) = fixed

\* C5: in the returned output the header and every written record end with
\* exactly one line terminator: there are as many lines as strings written.
C5_OneRecordPerLine ==
    pc = "done" =>
        /\ \A k \in 1..Len(temp_file) :
               /\ temp_file[k] # <<>>
               /\ temp_file[k][Len(temp_file[k])] = LF
        /\ Count(Concat(temp_file), <<LF>>) = Len(temp_file)

\* C6: every yielded record that is neither escape-bad nor delimiter-bad is
\* in the output exactly as get_records yielded it.
C6_CleanWrittenVerbatim ==
    pc = "done" =>
        \A k \in 1..Len(yielded) :
            (/\ ~IsBadEscape(AnalyzedRecord(yielded[k]))
             /\ ~IsBadDelimiter(AnalyzedRecord(yielded[k])))
            => \E j \in 1..Len(temp_file) :
                   temp_file[j] = yielded[k] \o <<LF>>

\* C7: with no bad-escape record and some bad-delimiter record that has fewer
\* delimiters than the header, the code is -4.
C7_TooFewAnywhere ==
    (/\ pc = "done"
     /\ bad_escapes = <<>>
     /\ \E j \in 1..Len(bad_delimiters) :
            delimiter_count(bad_delimiters[j]) < header_delimiter_count)
    => code = -4

\* the delimiters of rec that separate fields: those outside qualified
\* values, a qualifier opening or closing a value
TrueDelimiterCount(rec) ==
    Cardinality({k \in 1..Len(rec) :
        /\ <<rec[k]>> = delimiter
        /\ Count(SubSeq(rec, 1, k), qualifier) % 2 = 0})

\* C8: a record is in bad_delimiters exactly when its true delimiter count
\* differs from the header's delimiter count.
C8_BadDelimiterIffTrueCount ==
    \A k \in 1..Len(yielded) :
        LET rec == AnalyzedRecord(yielded[k])
        IN (\E j \in 1..Len(bad_delimiters) : bad_delimiters[j] = rec)
           <=> (TrueDelimiterCount(rec) # header_delimiter_count)

\* C9: for a file in which every body line is non-empty, has the header's
\* delimiter count and is no continuation, get_records yields as many records
\* as there are body lines and no empty record.
C9_RecordPerLine ==
    (/\ pc = "done"
     /\ overflow_lines = <<>>
     /\ \A k \in 1..Len(lines) :
            /\ lines[k] # <<>>
            /\ Count(lines[k], delimiter) = header_delimiter_count)
    => /\ Len(yielded) = Len(lines)
       /\ \A k \in 1..Len(yielded) : yielded[k] # <<>>

\* C10: on a record of exactly two qualified fields get_qualifier_values
\* yields the two values, each without its qualifiers and complete.
C10_TwoQualifiedValues ==
    \A A \in ValuePool, B \in ValuePool :
        (/\ gq_pc = "done"
         /\ qualifier = <<QUOTE>>
         /\ gq_record = TwoQualified(A, B))
        => gq_values = <<A, B>>


\* C11: when utf8 decoding fails and a body line fails to decode under cp1252
\* as well, peek_file returns code -2 and goes no further
C11_UndecodableBytesReturned ==
    pk_bad_lines # <<>> => (pk_pc = "returned" /\ pk_result.code = -2)

\* C12: for a decodable header peek_file never ends in an uncaught exception;
\* a header without a usable spacer, or whose chosen spacer has no character
\* occurring once, gives the DelimiterNotFound outcome (code -3 or -4)
C12_DelimiterNotFoundTyped ==
    /\ pk_pc # "IndexError"
    /\ (/\ pk_pc = "returned"
        /\ pk_result.code \notin {-1, -6}
        /\ \/ Spacers(pk_decoded) = <<>>
           \/ LET spacers == Spacers(pk_decoded)
              IN SingleOccurrences(IF Len(spacers) > 1 THEN spacers[2]
                                   ELSE spacers[1]) = {})
       => pk_result.code \in {-3, -4}


\* C13: on a bad-delimiter row, undo_change puts back the values the row had
\* before the merge, and redo_change then reapplies the merge to that same
\* row and raises nothing, so merge; undo; redo ends in the state right after
\* the merge
C13_MergeUndoRedo ==
    [][/\ (/\ tb_op'.op = "undo"
           /\ current_change' # current_change
           /\ table_changes[current_change + 1].row >= GoodRows)
          => LET change == table_changes[current_change + 1]
             IN /\ tb_error' = "none"
                /\ tb_rows' = [tb_rows EXCEPT ![change.row - GoodRows + 1] =
                                   change.old_row]
       /\ (/\ tb_op'.op = "redo"
           /\ current_change' # current_change
           /\ table_changes[current_change + 2].row >= GoodRows)
          => LET change == table_changes[current_change + 2]
                 old == change.old_row
                 merged == PySlice(old, 0, change.start)
                           \o <<Join(PySlice(old, change.start,
                                             change.end + 1))>>
                           \o PySlice(old, change.end + 1, Len(old))
             IN /\ tb_error' = "none"
                /\ tb_rows' = [tb_rows EXCEPT ![change.row - GoodRows + 1] =
                                   merged]]_vars

C20_GoodRowMergeNoEffect ==
    [][(tb_op'.op = "merge" /\ tb_op'.good_row)
       => UNCHANGED <<tb_rows, table_changes, current_change>>]_vars


\* C15: the output is the header, then the clean records in the order
\* get_records yielded them, then the repaired forms of the bad-escape records
\* in the order they were met; while the lines are read no repaired record is
\* written
C15_RepairsAfterClean ==
    LET IsClean(raw) == /\ ~IsBadEscape(AnalyzedRecord(raw))
                        /\ ~IsBadDelimiter(AnalyzedRecord(raw))
        IsEscape(raw) == IsBadEscape(AnalyzedRecord(raw))
        clean == SelectSeq(yielded, IsClean)
        escape == SelectSeq(yielded, IsEscape)
        written == <<header_line \o <<LF>>>>
                   \o [k \in 1..Len(clean) |->
                          AnalyzedRecord(clean[k]) \o <<LF>>]
        repaired == [k \in 1..Len(escape) |->
                        fix_record([record |-> AnalyzedRecord(escape[k]),
                                    values |->
                                        BadValues(AnalyzedRecord(escape[k]))])]
    IN /\ pc = "lines" => temp_file = written
       /\ pc = "done" => temp_file = written \o repaired

\* a finished pass in which a clean record was yielded after a bad-escape
\* record, and two records were repaired
C15_Witness ==
    /\ pc = "done"
    /\ Len(bad_escapes) >= 2
    /\ \E j \in 1..Len(yielded) : \E k \in (j + 1)..Len(yielded) :
          /\ IsBadEscape(AnalyzedRecord(yielded[j]))
          /\ ~IsBadEscape(AnalyzedRecord(yielded[k]))
          /\ ~IsBadDelimiter(AnalyzedRecord(yielded[k]))


\* C16: for a non-empty record and a non-empty qualifier get_qualifier_values
\* ends by exhausting its values or by the iteration-ceiling failure, and
\* raises nothing else
C16_TwoEndings ==
    (qualifier # <<>> /\ gq_record # <<>>)
    => gq_pc \in {"begin", "trailing", "loop", "done", "Exception"}


RECURSIVE ClosingQualifier(_, _)
\* the position of the qualifier that closes a value whose content starts at
\* p, a doubled qualifier being content; 0 if the value is not closed
ClosingQualifier(rec, p) ==
    IF p > Len(rec) THEN 0
    ELSE IF <<rec[p]>> # qualifier THEN ClosingQualifier(rec, p + 1)
    ELSE IF p < Len(rec) /\ <<rec[p + 1]>> = qualifier
         THEN ClosingQualifier(rec, p + 2)
    ELSE p

RECURSIVE WellFormedFrom(_, _)
\* from position p on, rec is a list of delimiter-separated fields, each
\* either free of qualifiers or enclosed in qualifiers with every inner
\* qualifier doubled
WellFormedFrom(rec, p) ==
    IF p > Len(rec) THEN TRUE
    ELSE IF <<rec[p]>> = qualifier
    THEN LET close == ClosingQualifier(rec, p + 1)
         IN /\ close # 0
            /\ \/ close = Len(rec)
               \/ /\ <<rec[close + 1]>> = delimiter
                  /\ WellFormedFrom(rec, close + 2)
    ELSE LET stops == {k \in p..Len(rec) : <<rec[k]>> = delimiter}
             stop == IF stops = {} THEN Len(rec) + 1 ELSE MinOf(stops)
         IN /\ \A k \in p..(stop - 1) : <<rec[k]>> # qualifier
            /\ WellFormedFrom(rec, stop + 1)

\* C17: no record made of well-formed fields is reported as a bad-escape
\* record, also when only some of its fields are qualified, and a file of
\* such records, one per line, each with the header's delimiter count, gets
\* code 1
C17_WellFormedNotBadEscape ==
    /\ \A k \in 1..Len(bad_escapes) :
           ~WellFormedFrom(bad_escapes[k].record, 1)
    /\ (/\ pc = "done"
        /\ overflow_lines = <<>>
        /\ \A k \in 1..Len(yielded) :
               /\ yielded[k] # <<>>
               /\ WellFormedFrom(yielded[k], 1)
               /\ TrueDelimiterCount(yielded[k]) = header_delimiter_count)
       => code = 1


\* body line k (the file's line k + 1) is recorded as an overflow line
IsOverflowLine(k) ==
    \E j \in 1..Len(overflow_lines) : overflow_lines[j] = k + 1

RECURSIVE OverflowTail(_)
\* the overflow lines from body line k up to the next line that is none,
\* each after a carriage return
OverflowTail(k) ==
    IF k <= Len(lines) /\ IsOverflowLine(k)
    THEN <<CR>> \o lines[k] \o OverflowTail(k + 1)
    ELSE <<>>

\* one group per body line that is no overflow line: the line, then the
\* overflow lines that follow it
LineGroups ==
    LET starters == SelectSeq([k \in 1..Len(lines) |-> k],
                              LAMBDA k : ~IsOverflowLine(k))
    IN [n \in 1..Len(starters) |->
           lines[starters[n]] \o OverflowTail(starters[n] + 1)]

NonEmptyOnly(records) == SelectSeq(records, LAMBDA r : r # <<>>)

OverflowLinesSound ==
    /\ \A j \in 1..Len(overflow_lines) :
           /\ overflow_lines[j] \in 2..(Len(lines) + 1)
           /\ ~RecordStartMatch(lines[overflow_lines[j] - 1])
    /\ \A j \in 1..(Len(overflow_lines) - 1) :
           overflow_lines[j] < overflow_lines[j + 1]

CleanPart == SubSeq(temp_file, 2, Len(temp_file) - Len(bad_escapes))

\* C19: every record get_records yielded is, in the form the loop analysed
\* it, written as a clean record, or in bad_escapes with its fix_record
\* written, or in bad_delimiters; the three destinations together hold as
\* many entries as records were yielded or more
C19_NoRecordDropped ==
    pc = "done" =>
        /\ \A k \in 1..Len(yielded) :
               LET rec == AnalyzedRecord(yielded[k])
               IN \/ \E j \in 1..Len(CleanPart) : CleanPart[j] = rec \o <<LF>>
                  \/ \E j \in 1..Len(bad_escapes) :
                        /\ bad_escapes[j].record = rec
                        /\ \E n \in 2..Len(temp_file) :
                              temp_file[n] = fix_record(bad_escapes[j])
                  \/ \E j \in 1..Len(bad_delimiters) : bad_delimiters[j] = rec
        /\ Len(temp_file) >= 1 + Len(bad_escapes)
        /\ Len(yielded)
             <= Len(CleanPart) + Len(bad_escapes) + Len(bad_delimiters)
        /\ Len(CleanPart) <= Len(yielded)

\* a finished pass with a clean record written and a record that is in
\* bad_escapes and in bad_delimiters
C19_Witness ==
    /\ pc = "done"
    /\ Len(yielded) >= 2
    /\ CleanPart # <<>>
    /\ \E j \in 1..Len(bad_escapes) : \E n \in 1..Len(bad_delimiters) :
          bad_escapes[j].record = bad_delimiters[n]

====
